---- MODULE Spec2Model ----
(***************************************************************************)
(* Smart socket protocol stack: the frame codec and the command/response   *)
(* grammar of smart_socket_server/src/lib.rs, the connection handler and   *)
(* the supervisor of smart_socket_server/src/main.rs, and the client       *)
(* session of smart_socket_client/src/main.rs.                             *)
(*                                                                         *)
(* A String is a sequence of Unicode scalar values, a byte buffer a        *)
(* sequence of numbers 0..255; as_bytes / from_utf8 convert between them.  *)
(***************************************************************************)
EXTENDS Integers, Sequences, FiniteSets, TLC

VARIABLES
    \* ---- server process (smart_socket_server/src/main.rs) ----
    running,       \* the AtomicBool shutdown flag
    mainPc,        \* position of main: "check", "accept", "join", "done"
    handles,       \* Vec<JoinHandle>: the connections whose handler was spawned
    backlog,       \* connections completed by the kernel, not yet accepted
    smart_socket,  \* the shared Socket behind the Mutex
    lockOwner,     \* holder of the Mutex, 0 when free
    handler,       \* per connection: the locals of handle_client
    \* ---- the TCP connections ----
    c2s,           \* bytes written by the peer, not yet read by the server
    s2c,           \* bytes written by the server, not yet read by the peer
    peer,          \* per connection: the remote end (a client session or a raw peer)
    \* ---- history ----
    hist,          \* per connection: operations applied and responses written
                   \* since the peer's last write, and the lock-time snapshot
    lastToggle,    \* is_on value set by the most recently completed toggle
    afterSignal,   \* connections accepted after the shutdown signal was raised
    \* ---- frame codec exercised on its own (lib.rs) ----
    message,       \* the string handed to serialize_message
    reader,        \* the bytes the Read stream still holds
    truncated,     \* the stream ended before the whole frame was delivered
    rd,            \* read_message: position, buffer being filled, result
    \* ---- lib.rs functions and the client's calls exercised on inputs ----
    source,        \* all the bytes the Read stream delivers before it ends
    value,         \* the Command or Response that was rendered, the messages
                   \* that were framed, or the SmartSocketClient that is closed
    text,          \* the text handed to from_str, or the bytes the stream holds
    outcome        \* what the function applied to it returned; for repeated
                   \* calls, the results in order

sysVars == <<running, mainPc, handles, backlog, smart_socket, lockOwner,
             handler, c2s, s2c, peer, hist, lastToggle, afterSignal>>
codecVars == <<message, reader, truncated, rd>>
pureVars == <<source, value, text, outcome>>
vars == <<running, mainPc, handles, backlog, smart_socket, lockOwner,
          handler, c2s, s2c, peer, hist, lastToggle, afterSignal,
          message, reader, truncated, rd, source, value, text, outcome>>

(***************************************************************************)
(* Bounds                                                                  *)
(***************************************************************************)
MaxConns == 2      \* connections that are ever opened
MaxPeerOps == 4    \* connects, writes and closes the peers perform in total
MaxLen == 2        \* characters of a message given to the codec
MaxBytes == 3      \* bytes of a frame body put on a stream as they are
MaxFrames == 2     \* frames put on one stream one after the other
MaxCloses == 8     \* close() calls made on one client, the one of Drop included

(***************************************************************************)
(* Generic helpers                                                         *)
(***************************************************************************)
Min(a, b) == IF a < b THEN a ELSE b

Take(s, n) == SubSeq(s, 1, n)

Drop(s, n) == SubSeq(s, n + 1, Len(s))

RECURSIVE SeqsUpTo(_, _)
SeqsUpTo(S, n) ==
    IF n = 0 THEN {<<>>}
    ELSE LET shorter == SeqsUpTo(S, n - 1)
         IN shorter \cup {Append(s, x) : s \in {t \in shorter : Len(t) = n - 1}, x \in S}

(***************************************************************************)
(* UTF-8: String::as_bytes, String::from_utf8, String::from_utf8_lossy     *)
(***************************************************************************)
REPLACEMENT == 65533      \* U+FFFD

EncodeChar(c) ==
    IF c < 128 THEN <<c>>
    ELSE IF c < 2048 THEN <<192 + (c \div 64), 128 + (c % 64)>>
    ELSE IF c < 65536 THEN
        <<224 + (c \div 4096), 128 + ((c \div 64) % 64), 128 + (c % 64)>>
    ELSE <<240 + (c \div 262144), 128 + ((c \div 4096) % 64),
           128 + ((c \div 64) % 64), 128 + (c % 64)>>

RECURSIVE as_bytes(_)
as_bytes(s) ==
    IF s = <<>> THEN <<>> ELSE EncodeChar(Head(s)) \o as_bytes(Tail(s))

\* The sequence starting at b[i]: whether it is well formed, the scalar it
\* encodes, and how many bytes it (or its maximal ill-formed prefix) takes.
DecodeAt(b, i) ==
    LET n == Len(b)
        b0 == b[i]
        w == IF b0 < 128 THEN 1
             ELSE IF b0 >= 194 /\ b0 <= 223 THEN 2
             ELSE IF b0 >= 224 /\ b0 <= 239 THEN 3
             ELSE IF b0 >= 240 /\ b0 <= 244 THEN 4
             ELSE 0
        Cont(j) == j <= n /\ b[j] >= 128 /\ b[j] <= 191
        lo2 == IF b0 = 224 THEN 160 ELSE IF b0 = 240 THEN 144 ELSE 128
        hi2 == IF b0 = 237 THEN 159 ELSE IF b0 = 244 THEN 143 ELSE 191
        ok2 == IF w = 2 THEN Cont(i + 1)
               ELSE i + 1 <= n /\ b[i + 1] >= lo2 /\ b[i + 1] <= hi2
        ok3 == ok2 /\ Cont(i + 2)
        ok4 == ok3 /\ Cont(i + 3)
    IN  IF w = 1 THEN [valid |-> TRUE, cp |-> b0, used |-> 1]
        ELSE IF w = 0 THEN [valid |-> FALSE, cp |-> REPLACEMENT, used |-> 1]
        ELSE IF w = 2 THEN
            IF ok2 THEN [valid |-> TRUE, used |-> 2,
                         cp |-> ((b0 - 192) * 64) + (b[i + 1] - 128)]
            ELSE [valid |-> FALSE, cp |-> REPLACEMENT, used |-> 1]
        ELSE IF w = 3 THEN
            IF ok3 THEN [valid |-> TRUE, used |-> 3,
                         cp |-> ((b0 - 224) * 4096) + ((b[i + 1] - 128) * 64)
                                + (b[i + 2] - 128)]
            ELSE [valid |-> FALSE, cp |-> REPLACEMENT,
                  used |-> IF ok2 THEN 2 ELSE 1]
        ELSE
            IF ok4 THEN [valid |-> TRUE, used |-> 4,
                         cp |-> ((b0 - 240) * 262144) + ((b[i + 1] - 128) * 4096)
                                + ((b[i + 2] - 128) * 64) + (b[i + 3] - 128)]
            ELSE [valid |-> FALSE, cp |-> REPLACEMENT,
                  used |-> IF ok3 THEN 3 ELSE IF ok2 THEN 2 ELSE 1]

RECURSIVE DecodeFrom(_, _)
DecodeFrom(b, i) ==
    IF i > Len(b) THEN <<>>
    ELSE LET d == DecodeAt(b, i)
         IN <<d>> \o DecodeFrom(b, i + d.used)

\* String::from_utf8_lossy: every ill-formed sequence becomes one U+FFFD.
from_utf8_lossy(b) ==
    LET ds == DecodeFrom(b, 1) IN [k \in 1..Len(ds) |-> ds[k].cp]

\* String::from_utf8: fails as soon as one sequence is ill formed.
from_utf8(b) ==
    LET ds == DecodeFrom(b, 1)
    IN IF \A k \in 1..Len(ds) : ds[k].valid
       THEN [ok |-> TRUE, val |-> [k \in 1..Len(ds) |-> ds[k].cp]]
       ELSE [ok |-> FALSE, err |-> [kind |-> "ParseError", msg |-> "Invalid UTF-8"]]

(***************************************************************************)
(* Frame codec (lib.rs: serialize_message, read_message)                   *)
(***************************************************************************)
\* u32::to_be_bytes of (n as u32)
to_be_bytes(n) ==
    <<(n \div 16777216) % 256, (n \div 65536) % 256, (n \div 256) % 256, (n % 256)>>

\* u32::from_be_bytes
from_be_bytes(b) == (b[1] * 16777216) + (b[2] * 65536) + (b[3] * 256) + b[4]

\* a frame whose prefix counts characters instead of bytes
serialize_message_chars(m) == to_be_bytes(Len(m)) \o as_bytes(m)

serialize_message(m) ==
    LET length == Len(as_bytes(m))
    IN to_be_bytes(length) \o as_bytes(m)

PrefixLen == 4     \* [0u8; 4]

\* read_message on a stream holding the bytes `avail` when no further byte
\* arrives: the result, and what is left of the stream.
read_message(avail) ==
    IF Len(avail) < PrefixLen
    THEN [ok |-> FALSE, rest |-> <<>>,
          err |-> [kind |-> "ConnectionError", msg |-> "Failed to read message length"]]
    ELSE LET length == from_be_bytes(Take(avail, PrefixLen))
             body == Drop(avail, PrefixLen)
         IN IF Len(body) < length
            THEN [ok |-> FALSE, rest |-> <<>>,
                  err |-> [kind |-> "ConnectionError", msg |-> "Failed to read message"]]
            ELSE LET r == from_utf8(Take(body, length))
                 IN IF r.ok
                    THEN [ok |-> TRUE, val |-> r.val, rest |-> Drop(body, length)]
                    ELSE [ok |-> FALSE, err |-> r.err, rest |-> Drop(body, length)]

(***************************************************************************)
(* Texts of the protocol (ASCII codes)                                     *)
(***************************************************************************)
S_ON == <<79, 78>>                          \* "ON"
S_OFF == <<79, 70, 70>>                     \* "OFF"
S_STATUS == <<83, 84, 65, 84, 85, 83>>      \* "STATUS"
S_INFO == <<73, 78, 70, 79>>                \* "INFO"
S_OK == <<79, 75>>                          \* "OK"
S_ERROR == <<69, 82, 82, 79, 82>>           \* "ERROR"
S_turned_on ==                              \* "Socket turned on"
    <<83, 111, 99, 107, 101, 116, 32, 116, 117, 114, 110, 101, 100, 32, 111, 110>>
S_turned_off ==                             \* "Socket turned off"
    <<83, 111, 99, 107, 101, 116, 32, 116, 117, 114, 110, 101, 100, 32, 111, 102, 102>>
S_Invalid_command ==                        \* "Invalid command: "
    <<73, 110, 118, 97, 108, 105, 100, 32, 99, 111, 109, 109, 97, 110, 100, 58, 32>>
S_Invalid_response ==                       \* "Invalid response: "
    <<73, 110, 118, 97, 108, 105, 100, 32, 114, 101, 115, 112, 111, 110, 115, 101, 58, 32>>
S_BOGUS == <<66, 79, 71, 85, 83>>           \* "BOGUS"
S_Kitchen_Socket ==                         \* "Kitchen Socket"
    <<75, 105, 116, 99, 104, 101, 110, 32, 83, 111, 99, 107, 101, 116>>
COLON == 58                                 \* ':'
PLUS == 43                                  \* '+'
DIGIT0 == 48                                \* '0'

(***************************************************************************)
(* Command / Response grammar (lib.rs)                                     *)
(***************************************************************************)
Command == {"TurnOn", "TurnOff", "GetStatus", "GetInfo"}

\* char::is_whitespace (Unicode White_Space), as str::trim uses it
IsWhitespace(c) ==
    \/ c >= 9 /\ c <= 13
    \/ c \in {32, 133, 160, 5760, 8232, 8233, 8239, 8287, 12288}
    \/ c >= 8192 /\ c <= 8202

RECURSIVE trim_start(_)
trim_start(s) ==
    IF s # <<>> /\ IsWhitespace(Head(s)) THEN trim_start(Tail(s)) ELSE s

RECURSIVE trim_end(_)
trim_end(s) ==
    IF s # <<>> /\ IsWhitespace(s[Len(s)]) THEN trim_end(Take(s, Len(s) - 1)) ELSE s

\* a trim that leaves the whitespace at the end
trim_start_only(s) == trim_start(s)

trim(s) == trim_end(trim_start(s))

\* impl FromStr for Command
Command_from_str(s) ==
    LET cmd == trim(s)
    IN  IF cmd = S_ON THEN [ok |-> TRUE, val |-> "TurnOn"]
        ELSE IF cmd = S_OFF THEN [ok |-> TRUE, val |-> "TurnOff"]
        ELSE IF cmd = S_STATUS THEN [ok |-> TRUE, val |-> "GetStatus"]
        ELSE IF cmd = S_INFO THEN [ok |-> TRUE, val |-> "GetInfo"]
        ELSE [ok |-> FALSE, err |-> [kind |-> "InvalidCommand", msg |-> cmd]]

\* a rendering in lower case
Command_to_string_lower(c) ==
    CASE c = "TurnOn" -> <<111, 110>>
      [] c = "TurnOff" -> <<111, 102, 102>>
      [] c = "GetStatus" -> <<115, 116, 97, 116, 117, 115>>
      [] c = "GetInfo" -> <<105, 110, 102, 111>>

\* impl Display for Command
Command_to_string(c) ==
    CASE c = "TurnOn" -> S_ON
      [] c = "TurnOff" -> S_OFF
      [] c = "GetStatus" -> S_STATUS
      [] c = "GetInfo" -> S_INFO

\* impl Display for ProtocolError, for the kinds that carry a protocol text
ProtocolError_to_string(e) ==
    CASE e.kind = "InvalidCommand" -> S_Invalid_command \o e.msg
      [] e.kind = "InvalidResponse" -> S_Invalid_response \o e.msg

RespOk(msg) == [tag |-> "Ok", msg |-> msg]
RespStatus(is_on, power) == [tag |-> "Status", is_on |-> is_on, power |-> power]
RespInfo(msg) == [tag |-> "Info", msg |-> msg]
RespError(msg) == [tag |-> "Error", msg |-> msg]

\* u32 Display
RECURSIVE ToDecimal(_)
ToDecimal(n) ==
    IF n < 10 THEN <<DIGIT0 + n>> ELSE Append(ToDecimal(n \div 10), DIGIT0 + (n % 10))

\* impl Display for Response
Response_to_string(r) ==
    CASE r.tag = "Ok" -> S_OK \o <<COLON>> \o r.msg
      [] r.tag = "Status" ->
            S_STATUS \o <<COLON>> \o (IF r.is_on THEN S_ON ELSE S_OFF)
                     \o <<COLON>> \o ToDecimal(r.power)
      [] r.tag = "Info" -> S_INFO \o <<COLON>> \o r.msg
      [] r.tag = "Error" -> S_ERROR \o <<COLON>> \o r.msg

\* position of the first ':' of s, 0 when there is none
RECURSIVE FirstColon(_, _)
FirstColon(s, i) ==
    IF i > Len(s) THEN 0 ELSE IF s[i] = COLON THEN i ELSE FirstColon(s, i + 1)

\* str::split(':')
RECURSIVE split(_)
split(s) ==
    LET i == FirstColon(s, 1)
    IN IF i = 0 THEN <<s>> ELSE <<Take(s, i - 1)>> \o split(Drop(s, i))

\* str::splitn(2, ':')
\* a split at every ':' instead of the first one only
splitn2_every_colon(s) == split(s)

\* s.splitn(2, ':'): always at least one part, "" for the empty text
splitn2(s) ==
    LET i == FirstColon(s, 1)
    IN IF i = 0 THEN <<s>> ELSE <<Take(s, i - 1), Drop(s, i)>>

U32Max10 == 429496729      \* u32::MAX / 10

\* u32 accumulation of decimal digits with the overflow checks of str::parse
RECURSIVE ParseDigits(_, _)
ParseDigits(s, acc) ==
    IF s = <<>> THEN [ok |-> TRUE, val |-> acc]
    ELSE LET d == Head(s) - DIGIT0
         IN IF d < 0 \/ d > 9 THEN [ok |-> FALSE]
            ELSE IF acc > U32Max10 \/ (acc = U32Max10 /\ d > 5) THEN [ok |-> FALSE]
            ELSE ParseDigits(Tail(s), (acc * 10) + d)

\* a parse that takes what is no number for 0
parse_u32_lenient(s) ==
    LET digits == IF s # <<>> /\ Head(s) = PLUS THEN Tail(s) ELSE s
        r == IF digits = <<>> THEN [ok |-> FALSE] ELSE ParseDigits(digits, 0)
    IN IF r.ok THEN r ELSE [ok |-> TRUE, val |-> 0]

\* str::parse::<u32>: an optional '+', then at least one digit
parse_u32(s) ==
    LET digits == IF s # <<>> /\ Head(s) = PLUS THEN Tail(s) ELSE s
    IN IF digits = <<>> THEN [ok |-> FALSE] ELSE ParseDigits(digits, 0)

ParseError(detail) == [ok |-> FALSE, err |-> [kind |-> "ParseError", msg |-> detail]]

\* impl FromStr for Response. parts.first() is never None, so the arm
\* None => ParseError("Empty response") is never taken.
Response_from_str(s) ==
    LET parts == splitn2(s)
        tag == parts[1]
    IN  IF tag = S_OK THEN
            IF Len(parts) < 2 THEN ParseError("Missing OK message")
            ELSE [ok |-> TRUE, val |-> RespOk(parts[2])]
        ELSE IF tag = S_STATUS THEN
            IF Len(parts) < 2 THEN ParseError("Missing status data")
            ELSE LET status_parts == split(parts[2])
                     is_on == (status_parts[1] = S_ON)
                 IN IF Len(status_parts) < 2 THEN ParseError("Missing power value")
                    ELSE LET power == parse_u32(status_parts[2])
                         IN IF power.ok
                            THEN [ok |-> TRUE, val |-> RespStatus(is_on, power.val)]
                            ELSE ParseError("Invalid power value")
        ELSE IF tag = S_INFO THEN
            IF Len(parts) < 2 THEN ParseError("Missing info message")
            ELSE [ok |-> TRUE, val |-> RespInfo(parts[2])]
        ELSE IF tag = S_ERROR THEN
            IF Len(parts) < 2 THEN ParseError("Missing error message")
            ELSE [ok |-> TRUE, val |-> RespError(parts[2])]
        ELSE [ok |-> FALSE, err |-> [kind |-> "InvalidResponse", msg |-> tag]]

(***************************************************************************)
(* The device (crate smart_home, devices::socket::Socket)                  *)
(***************************************************************************)
ConfiguredPower == 3500

Socket_new == [name |-> S_Kitchen_Socket, power |-> ConfiguredPower, is_on |-> FALSE]

turn_on(s) == [s EXCEPT !.is_on = TRUE]

turn_off(s) == [s EXCEPT !.is_on = FALSE]

is_on(s) == s.is_on

get_power(s) == s.power

description(s) == s.name

(***************************************************************************)
(* read_message / serialize_message on a Read stream of their own          *)
(***************************************************************************)
\* 'O', U+00E9, U+20AC, U+1F600: one character of each UTF-8 width
Chars == {79, 233, 8364, 128512}

Messages == SeqsUpTo(Chars, MaxLen)

NoResult == [ok |-> FALSE, err |-> [kind |-> "None", msg |-> ""]]

ConnectionError(detail) ==
    [ok |-> FALSE, err |-> [kind |-> "ConnectionError", msg |-> detail]]

StrOk(r) == IF r.ok THEN [ok |-> TRUE, val |-> r.val] ELSE [ok |-> FALSE, err |-> r.err]

CodecInit ==
    /\ message \in Messages
    /\ reader = <<>>
    /\ truncated = FALSE
    /\ rd = [pc |-> "idle", need |-> 0, buf |-> <<>>, result |-> NoResult]

CodecIdle ==
    /\ message = <<>>
    /\ reader = <<>>
    /\ truncated = FALSE
    /\ rd = [pc |-> "idle", need |-> 0, buf |-> <<>>, result |-> NoResult]

\* The stream is loaded with the first `cut` bytes of the frame of `message`
\* and read_message starts on it with its 4-byte length buffer.
WriteFrame(cut) ==
    /\ rd.pc = "idle"
    /\ cut \in 0..Len(serialize_message(message))
    /\ reader' = Take(serialize_message(message), cut)
    /\ truncated' = (cut < Len(serialize_message(message)))
    /\ rd' = [rd EXCEPT !.pc = "length", !.need = PrefixLen, !.buf = <<>>]
    /\ UNCHANGED message

\* reader.read_exact(&mut length_bytes): one read of k bytes
ReadLength(k) ==
    /\ rd.pc = "length"
    /\ k \in 1..Min(rd.need, Len(reader))
    /\ reader' = Drop(reader, k)
    /\ LET buf == rd.buf \o Take(reader, k)
           length == from_be_bytes(buf)
       IN rd' = IF rd.need > k
                THEN [rd EXCEPT !.need = @ - k, !.buf = buf]
                ELSE IF length = 0
                THEN [rd EXCEPT !.pc = "done", !.need = 0, !.buf = <<>>,
                                !.result = StrOk(from_utf8(<<>>))]
                ELSE [rd EXCEPT !.pc = "body", !.need = length, !.buf = <<>>]
    /\ UNCHANGED <<message, truncated>>

\* a body read that takes a whole chunk off the stream and keeps only the
\* bytes the frame lacks
ReadBody_drains_chunk(k) ==
    /\ rd.pc = "body"
    /\ k \in 1..Len(reader)
    /\ reader' = Drop(reader, k)
    /\ LET got == Min(k, rd.need)
           buf == rd.buf \o Take(reader, got)
       IN rd' = IF rd.need > got
                THEN [rd EXCEPT !.need = @ - got, !.buf = buf]
                ELSE [rd EXCEPT !.pc = "done", !.need = 0, !.buf = <<>>,
                                !.result = StrOk(from_utf8(buf))]
    /\ UNCHANGED <<message, truncated>>

\* reader.read_exact(&mut buffer): one read of k bytes, then String::from_utf8
ReadBody(k) ==
    /\ rd.pc = "body"
    /\ k \in 1..Min(rd.need, Len(reader))
    /\ reader' = Drop(reader, k)
    /\ LET buf == rd.buf \o Take(reader, k)
       IN rd' = IF rd.need > k
                THEN [rd EXCEPT !.need = @ - k, !.buf = buf]
                ELSE [rd EXCEPT !.pc = "done", !.need = 0, !.buf = <<>>,
                                !.result = StrOk(from_utf8(buf))]
    /\ UNCHANGED <<message, truncated>>

\* an end of stream that is taken for the end of the message
ReadEof_returns_partial ==
    /\ rd.pc \in {"length", "body"}
    /\ reader = <<>>
    /\ rd' = [rd EXCEPT !.pc = "done", !.result = StrOk(from_utf8(rd.buf))]
    /\ UNCHANGED <<message, reader, truncated>>

\* a read returns 0 before the buffer is full (the stream has ended or
\* faulted): read_exact fails
ReadEof ==
    /\ rd.pc \in {"length", "body"}
    /\ reader = <<>>
    /\ rd' = [rd EXCEPT !.pc = "done",
                        !.result = IF rd.pc = "length"
                                   THEN ConnectionError("Failed to read message length")
                                   ELSE ConnectionError("Failed to read message")]
    /\ UNCHANGED <<message, reader, truncated>>

(***************************************************************************)
(* The server: main and handle_client (smart_socket_server/src/main.rs)    *)
(***************************************************************************)
Conns == 1..MaxConns

BufferSize == 1024     \* let mut buffer = [0; 1024]

NoResponse == [tag |-> "None"]

HandlerInit ==
    [pc |-> "none", command_str |-> <<>>, command |-> "none", is_on |-> FALSE,
     response |-> NoResponse, result |-> "none"]

PeerInit ==
    [state |-> "none", kind |-> "none", pc |-> "idle", sends |-> 0,
     previous |-> "none", command |-> "none", result |-> NoResult]

HistInit ==
    [applied |-> 0, responses |-> 0, partial |-> FALSE, snap |-> FALSE,
     erred |-> FALSE]

\* what the peer of connection c has done so far: connect, writes, close
PeerOpsOf(c) ==
    (IF peer[c].state = "none" THEN 0 ELSE 1) + peer[c].sends
    + (IF peer[c].state \in {"closed", "reset"} THEN 1 ELSE 0)

RECURSIVE PeerOpsUpTo(_)
PeerOpsUpTo(c) == IF c = 0 THEN 0 ELSE PeerOpsOf(c) + PeerOpsUpTo(c - 1)

PeerOps == PeerOpsUpTo(MaxConns)

SysInit ==
    /\ running = TRUE
    /\ mainPc = "check"
    /\ handles = <<>>
    /\ backlog = <<>>
    /\ smart_socket = Socket_new
    /\ lockOwner = 0
    /\ handler = [c \in Conns |-> HandlerInit]
    /\ c2s = [c \in Conns |-> <<>>]
    /\ s2c = [c \in Conns |-> <<>>]
    /\ peer = [c \in Conns |-> PeerInit]
    /\ hist = [c \in Conns |-> HistInit]
    /\ lastToggle = FALSE
    /\ afterSignal = 0

\* ctrlc handler: r.store(false)
Signal ==
    /\ running
    /\ running' = FALSE
    /\ UNCHANGED <<mainPc, handles, backlog, smart_socket, lockOwner, handler,
                   c2s, s2c, peer, hist, lastToggle, afterSignal>>

\* a loop that never looks at the flag
MainCheck_ignores_flag ==
    /\ mainPc = "check"
    /\ mainPc' = "accept"
    /\ UNCHANGED <<running, handles, backlog, smart_socket, lockOwner, handler,
                   c2s, s2c, peer, hist, lastToggle, afterSignal>>

\* while running.load(Ordering::SeqCst)
MainCheck ==
    /\ mainPc = "check"
    /\ mainPc' = IF running THEN "accept" ELSE "join"
    /\ UNCHANGED <<running, handles, backlog, smart_socket, lockOwner, handler,
                   c2s, s2c, peer, hist, lastToggle, afterSignal>>

\* listener.accept() = Ok: spawn handle_client on the stream, push the handle
MainAcceptOk ==
    /\ mainPc = "accept"
    /\ backlog # <<>>
    /\ LET c == Head(backlog)
       IN /\ handler' = [handler EXCEPT ![c].pc = "start", ![c].result = "running"]
          /\ handles' = Append(handles, c)
    /\ backlog' = Tail(backlog)
    /\ afterSignal' = IF running THEN afterSignal ELSE afterSignal + 1
    /\ mainPc' = "check"
    /\ UNCHANGED <<running, smart_socket, lockOwner, c2s, s2c, peer, hist, lastToggle>>

\* listener.accept() = Err(WouldBlock): sleep 100 ms, continue
MainAcceptWouldBlock ==
    /\ mainPc = "accept"
    /\ backlog = <<>>
    /\ mainPc' = "check"
    /\ UNCHANGED <<running, handles, backlog, smart_socket, lockOwner, handler,
                   c2s, s2c, peer, hist, lastToggle, afterSignal>>

\* listener.accept() = Err(e): log "Connection failed", next iteration
MainAcceptErr ==
    /\ mainPc = "accept"
    /\ mainPc' = "check"
    /\ UNCHANGED <<running, handles, backlog, smart_socket, lockOwner, handler,
                   c2s, s2c, peer, hist, lastToggle, afterSignal>>

\* a join that does not wait for the thread
MainJoin_no_wait ==
    /\ mainPc = "join"
    /\ handles # <<>>
    /\ handles' = Tail(handles)
    /\ UNCHANGED <<running, mainPc, backlog, smart_socket, lockOwner, handler,
                   c2s, s2c, peer, hist, lastToggle, afterSignal>>

\* for handle in handles { handle.join() }
MainJoin ==
    /\ mainPc = "join"
    /\ handles # <<>>
    /\ handler[Head(handles)].pc = "finished"
    /\ handles' = Tail(handles)
    /\ UNCHANGED <<running, mainPc, backlog, smart_socket, lockOwner, handler,
                   c2s, s2c, peer, hist, lastToggle, afterSignal>>

\* log("Server shutdown complete"); Ok(())
MainDone ==
    /\ mainPc = "join"
    /\ handles = <<>>
    /\ mainPc' = "done"
    /\ UNCHANGED <<running, handles, backlog, smart_socket, lockOwner, handler,
                   c2s, s2c, peer, hist, lastToggle, afterSignal>>

\* stream.set_nonblocking(false) = Ok, peer_addr, "New client connected"
HandlerStart(c) ==
    /\ handler[c].pc = "start"
    /\ handler' = [handler EXCEPT ![c].pc = "read"]
    /\ UNCHANGED <<running, mainPc, handles, backlog, smart_socket, lockOwner,
                   c2s, s2c, peer, hist, lastToggle, afterSignal>>

\* stream.set_nonblocking(false) = Err(e): "?" returns
\* Err(ConnectionError("Failed to set blocking mode: ..."))
HandlerStartErr(c) ==
    /\ handler[c].pc = "start"
    /\ handler' = [handler EXCEPT ![c].pc = "finished",
                                  ![c].result = "ConnectionError"]
    /\ UNCHANGED <<running, mainPc, handles, backlog, smart_socket, lockOwner,
                   c2s, s2c, peer, hist, lastToggle, afterSignal>>

\* Sizes one stream.read may return when n bytes are pending: all of them, or
\* only a first segment as long as a length prefix.
ReadSizes(n) == {k \in {PrefixLen, n} : k >= 1 /\ k <= n /\ k <= BufferSize}

\* a handler that switches the device off when a text is no command
HandlerRead_error_resets(c, size) ==
    /\ handler[c].pc = "read"
    /\ peer[c].state # "reset"
    /\ size \in ReadSizes(Len(c2s[c]))
    /\ LET command_str == from_utf8_lossy(Take(c2s[c], size))
           command == Command_from_str(command_str)
       IN handler' =
            IF command.ok
            THEN [handler EXCEPT ![c].pc = "lock", ![c].command_str = command_str,
                                 ![c].command = command.val,
                                 ![c].response = NoResponse]
            ELSE [handler EXCEPT ![c].pc = "write", ![c].command_str = command_str,
                                 ![c].command = "none",
                                 ![c].response =
                                     RespError(ProtocolError_to_string(command.err))]
    /\ c2s' = [c2s EXCEPT ![c] = Drop(@, size)]
    /\ smart_socket' = IF Command_from_str(from_utf8_lossy(Take(c2s[c], size))).ok
                       THEN smart_socket
                       ELSE turn_off(smart_socket)
    /\ UNCHANGED <<running, mainPc, handles, backlog, lockOwner,
                   s2c, peer, hist, lastToggle, afterSignal>>

\* stream.read = Ok(size), size > 0: from_utf8_lossy, Command::from_str, and the
\* Error response when the text is no command
HandlerRead(c, size) ==
    /\ handler[c].pc = "read"
    /\ peer[c].state # "reset"
    /\ size \in ReadSizes(Len(c2s[c]))
    /\ LET command_str == from_utf8_lossy(Take(c2s[c], size))
           command == Command_from_str(command_str)
       IN handler' =
            IF command.ok
            THEN [handler EXCEPT ![c].pc = "lock", ![c].command_str = command_str,
                                 ![c].command = command.val,
                                 ![c].response = NoResponse]
            ELSE [handler EXCEPT ![c].pc = "write", ![c].command_str = command_str,
                                 ![c].command = "none",
                                 ![c].response =
                                     RespError(ProtocolError_to_string(command.err))]
    /\ c2s' = [c2s EXCEPT ![c] = Drop(@, size)]
    /\ UNCHANGED <<running, mainPc, handles, backlog, smart_socket, lockOwner,
                   s2c, peer, hist, lastToggle, afterSignal>>

\* a handler that leaves its loop when the shutdown flag is set
HandlerEof_on_shutdown(c) ==
    /\ handler[c].pc = "read"
    /\ c2s[c] = <<>>
    /\ peer[c].state = "closed" \/ ~running
    /\ handler' = [handler EXCEPT ![c].pc = "finished", ![c].result = "Ok"]
    /\ UNCHANGED <<running, mainPc, handles, backlog, smart_socket, lockOwner,
                   c2s, s2c, peer, hist, lastToggle, afterSignal>>

\* stream.read = Ok(0): "Client disconnected", break, Ok(())
HandlerEof(c) ==
    /\ handler[c].pc = "read"
    /\ peer[c].state = "closed"
    /\ c2s[c] = <<>>
    /\ handler' = [handler EXCEPT ![c].pc = "finished", ![c].result = "Ok"]
    /\ UNCHANGED <<running, mainPc, handles, backlog, smart_socket, lockOwner,
                   c2s, s2c, peer, hist, lastToggle, afterSignal>>

\* a read error that stops the whole server
HandlerReadErr_stops_server(c) ==
    /\ handler[c].pc = "read"
    /\ peer[c].state = "reset"
    /\ handler' = [handler EXCEPT ![c].pc = "finished", ![c].result = "Ok"]
    /\ running' = FALSE
    /\ UNCHANGED <<mainPc, handles, backlog, smart_socket, lockOwner,
                   c2s, s2c, peer, hist, lastToggle, afterSignal>>

\* stream.read = Err(e): "Error reading from client", break, Ok(())
HandlerReadErr(c) ==
    /\ handler[c].pc = "read"
    /\ peer[c].state = "reset"
    /\ handler' = [handler EXCEPT ![c].pc = "finished", ![c].result = "Ok"]
    /\ UNCHANGED <<running, mainPc, handles, backlog, smart_socket, lockOwner,
                   c2s, s2c, peer, hist, lastToggle, afterSignal>>

\* a handler that gives up its command when the server is shutting down
HandlerLock_stops_on_shutdown(c) ==
    /\ handler[c].pc = "lock"
    /\ IF running
       THEN /\ lockOwner = 0
            /\ lockOwner' = c
            /\ handler' = [handler EXCEPT ![c].pc = "locked"]
            /\ hist' = [hist EXCEPT ![c].snap = lastToggle]
       ELSE /\ handler' = [handler EXCEPT ![c] = [HandlerInit EXCEPT !.pc = "finished",
                                                                   !.result = "Ok"]]
            /\ UNCHANGED <<lockOwner, hist>>
    /\ UNCHANGED <<running, mainPc, handles, backlog, smart_socket,
                   c2s, s2c, peer, lastToggle, afterSignal>>

\* a lock that is taken without waiting for its holder
HandlerLock_no_exclusion(c) ==
    /\ handler[c].pc = "lock"
    /\ lockOwner' = c
    /\ handler' = [handler EXCEPT ![c].pc = "locked"]
    /\ hist' = [hist EXCEPT ![c].snap = lastToggle]
    /\ UNCHANGED <<running, mainPc, handles, backlog, smart_socket,
                   c2s, s2c, peer, lastToggle, afterSignal>>

\* let mut smart_socket = smart_socket.lock().unwrap()
HandlerLock(c) ==
    /\ handler[c].pc = "lock"
    /\ lockOwner = 0
    /\ lockOwner' = c
    /\ handler' = [handler EXCEPT ![c].pc = "locked"]
    /\ hist' = [hist EXCEPT ![c].snap = lastToggle]
    /\ UNCHANGED <<running, mainPc, handles, backlog, smart_socket,
                   c2s, s2c, peer, lastToggle, afterSignal>>

\* a dispatch that answers GetStatus from the flag the handler holds, without
\* asking the device
HandlerDispatch_cached_status(c) ==
    /\ handler[c].pc = "locked"
    /\ LET command == handler[c].command
       IN CASE command = "TurnOn" ->
                 /\ smart_socket' = turn_on(smart_socket)
                 /\ lastToggle' = TRUE
                 /\ lockOwner' = 0
                 /\ handler' = [handler EXCEPT ![c].pc = "write",
                                               ![c].response = RespOk(S_turned_on)]
                 /\ hist' = [hist EXCEPT ![c].applied = @ + 1]
            [] command = "TurnOff" ->
                 /\ smart_socket' = turn_off(smart_socket)
                 /\ lastToggle' = FALSE
                 /\ lockOwner' = 0
                 /\ handler' = [handler EXCEPT ![c].pc = "write",
                                               ![c].response = RespOk(S_turned_off)]
                 /\ hist' = [hist EXCEPT ![c].applied = @ + 1]
            [] command = "GetStatus" ->
                 /\ handler' = [handler EXCEPT ![c].pc = "status"]
                 /\ UNCHANGED <<smart_socket, lastToggle, lockOwner, hist>>
            [] command = "GetInfo" ->
                 /\ lockOwner' = 0
                 /\ handler' = [handler EXCEPT ![c].pc = "write",
                                               ![c].response =
                                                   RespInfo(description(smart_socket))]
                 /\ hist' = [hist EXCEPT ![c].applied = @ + 1]
                 /\ UNCHANGED <<smart_socket, lastToggle>>
    /\ UNCHANGED <<running, mainPc, handles, backlog, c2s, s2c, peer, afterSignal>>

\* a dispatch whose TurnOff arm calls turn_on
HandlerDispatch_off_turns_on(c) ==
    /\ handler[c].pc = "locked"
    /\ LET command == handler[c].command
       IN CASE command = "TurnOn" ->
                 /\ smart_socket' = turn_on(smart_socket)
                 /\ lastToggle' = TRUE
                 /\ lockOwner' = 0
                 /\ handler' = [handler EXCEPT ![c].pc = "write",
                                               ![c].response = RespOk(S_turned_on)]
                 /\ hist' = [hist EXCEPT ![c].applied = @ + 1]
            [] command = "TurnOff" ->
                 /\ smart_socket' = turn_on(smart_socket)
                 /\ lastToggle' = FALSE
                 /\ lockOwner' = 0
                 /\ handler' = [handler EXCEPT ![c].pc = "write",
                                               ![c].response = RespOk(S_turned_off)]
                 /\ hist' = [hist EXCEPT ![c].applied = @ + 1]
            [] command = "GetStatus" ->
                 /\ handler' = [handler EXCEPT ![c].pc = "status",
                                               ![c].is_on = is_on(smart_socket)]
                 /\ UNCHANGED <<smart_socket, lastToggle, lockOwner, hist>>
            [] command = "GetInfo" ->
                 /\ lockOwner' = 0
                 /\ handler' = [handler EXCEPT ![c].pc = "write",
                                               ![c].response =
                                                   RespInfo(description(smart_socket))]
                 /\ hist' = [hist EXCEPT ![c].applied = @ + 1]
                 /\ UNCHANGED <<smart_socket, lastToggle>>
    /\ UNCHANGED <<running, mainPc, handles, backlog, c2s, s2c, peer, afterSignal>>

\* match command { TurnOn | TurnOff | GetStatus (is_on) | GetInfo }; the guard
\* is dropped at the end of the Ok(command) arm
HandlerDispatch(c) ==
    /\ handler[c].pc = "locked"
    /\ LET command == handler[c].command
       IN CASE command = "TurnOn" ->
                 /\ smart_socket' = turn_on(smart_socket)
                 /\ lastToggle' = TRUE
                 /\ lockOwner' = 0
                 /\ handler' = [handler EXCEPT ![c].pc = "write",
                                               ![c].response = RespOk(S_turned_on)]
                 /\ hist' = [hist EXCEPT ![c].applied = @ + 1]
            [] command = "TurnOff" ->
                 /\ smart_socket' = turn_off(smart_socket)
                 /\ lastToggle' = FALSE
                 /\ lockOwner' = 0
                 /\ handler' = [handler EXCEPT ![c].pc = "write",
                                               ![c].response = RespOk(S_turned_off)]
                 /\ hist' = [hist EXCEPT ![c].applied = @ + 1]
            [] command = "GetStatus" ->
                 /\ handler' = [handler EXCEPT ![c].pc = "status",
                                               ![c].is_on = is_on(smart_socket)]
                 /\ UNCHANGED <<smart_socket, lastToggle, lockOwner, hist>>
            [] command = "GetInfo" ->
                 /\ lockOwner' = 0
                 /\ handler' = [handler EXCEPT ![c].pc = "write",
                                               ![c].response =
                                                   RespInfo(description(smart_socket))]
                 /\ hist' = [hist EXCEPT ![c].applied = @ + 1]
                 /\ UNCHANGED <<smart_socket, lastToggle>>
    /\ UNCHANGED <<running, mainPc, handles, backlog, c2s, s2c, peer, afterSignal>>

\* a guard that lives until the end of the loop body, beyond the write
HandlerStatus_keeps_lock(c) ==
    /\ handler[c].pc = "status"
    /\ handler' = [handler EXCEPT ![c].pc = "write",
                                  ![c].response =
                                      RespStatus(handler[c].is_on, get_power(smart_socket))]
    /\ hist' = [hist EXCEPT ![c].applied = @ + 1]
    /\ UNCHANGED <<running, mainPc, handles, backlog, smart_socket, lockOwner,
                   c2s, s2c, peer, lastToggle, afterSignal>>

\* Response::Status { is_on, power: smart_socket.get_power() }, guard dropped
HandlerStatus(c) ==
    /\ handler[c].pc = "status"
    /\ handler' = [handler EXCEPT ![c].pc = "write",
                                  ![c].response =
                                      RespStatus(handler[c].is_on, get_power(smart_socket))]
    /\ lockOwner' = 0
    /\ hist' = [hist EXCEPT ![c].applied = @ + 1]
    /\ UNCHANGED <<running, mainPc, handles, backlog, smart_socket,
                   c2s, s2c, peer, lastToggle, afterSignal>>

\* a handler that leaves its loop after answering a protocol error
HandlerWrite_closes_on_error(c) ==
    /\ handler[c].pc = "write"
    /\ peer[c].state \in {"open", "closed"}
    /\ s2c' = [s2c EXCEPT ![c] =
                  IF peer[c].state = "open" /\ peer[c].kind = "client"
                  THEN @ \o as_bytes(Response_to_string(handler[c].response))
                  ELSE @]
    /\ hist' = [hist EXCEPT ![c].responses = @ + 1, ![c].snap = FALSE,
                            ![c].erred = @ \/ handler[c].response.tag = "Error"]
    /\ handler' = IF handler[c].response.tag = "Error"
                  THEN [handler EXCEPT ![c] = [HandlerInit EXCEPT !.pc = "finished",
                                                                  !.result = "Ok"]]
                  ELSE [handler EXCEPT ![c] = [HandlerInit EXCEPT !.pc = "read",
                                                                  !.result = "running"]]
    /\ UNCHANGED <<running, mainPc, handles, backlog, smart_socket, lockOwner,
                   c2s, peer, lastToggle, afterSignal>>

\* stream.write(response.to_string().as_bytes()) = Ok: next iteration, whose
\* locals start afresh. A raw peer reads and drops what it is sent.
HandlerWrite(c) ==
    /\ handler[c].pc = "write"
    /\ peer[c].state \in {"open", "closed"}
    /\ s2c' = [s2c EXCEPT ![c] =
                  IF peer[c].state = "open" /\ peer[c].kind = "client"
                  THEN @ \o as_bytes(Response_to_string(handler[c].response))
                  ELSE @]
    /\ hist' = [hist EXCEPT ![c].responses = @ + 1, ![c].snap = FALSE,
                            ![c].erred = @ \/ handler[c].response.tag = "Error"]
    /\ handler' = [handler EXCEPT ![c] = [HandlerInit EXCEPT !.pc = "read",
                                                             !.result = "running"]]
    /\ UNCHANGED <<running, mainPc, handles, backlog, smart_socket, lockOwner,
                   c2s, peer, lastToggle, afterSignal>>

\* stream.write = Err(e): "Failed to send response", break, Ok(())
HandlerWriteErr(c) ==
    /\ handler[c].pc = "write"
    /\ peer[c].state \in {"closed", "reset"}
    /\ handler' = [handler EXCEPT ![c] = [HandlerInit EXCEPT !.pc = "finished",
                                                             !.result = "Ok"]]
    /\ hist' = [hist EXCEPT ![c].snap = FALSE]
    /\ UNCHANGED <<running, mainPc, handles, backlog, smart_socket, lockOwner,
                   c2s, s2c, peer, lastToggle, afterSignal>>

(***************************************************************************)
(* The remote ends: the client session (smart_socket_client/src/main.rs)   *)
(* and peers that write bytes of their own                                 *)
(***************************************************************************)
\* what a raw peer writes in one go: a bare command text, a text that is no
\* command, or the first 2 of the 4 bytes of a length prefix
RawInputs == {S_ON, S_OFF, S_STATUS, S_INFO, S_BOGUS, <<0, 0>>}

\* TcpStream::connect: the kernel completes the connection into the backlog
Connect(c) ==
    /\ mainPc # "done"
    /\ PeerOps < MaxPeerOps
    /\ peer[c].state = "none"
    /\ IF c = 1 THEN TRUE ELSE peer[c - 1].state # "none"
    /\ peer' = [peer EXCEPT ![c].state = "open"]
    /\ backlog' = Append(backlog, c)
    /\ UNCHANGED <<running, mainPc, handles, smart_socket, lockOwner, handler,
                   c2s, s2c, hist, lastToggle, afterSignal>>

\* send_command, first half: serialize_message(command.to_string()), write_all
ClientSend(c, command) ==
    /\ peer[c].kind \in {"none", "client"}
    /\ peer[c].state = "open"
    /\ peer[c].pc = "idle"
    /\ PeerOps < MaxPeerOps
    /\ c2s' = [c2s EXCEPT ![c] = @ \o serialize_message(Command_to_string(command))]
    /\ peer' = [peer EXCEPT ![c].kind = "client", ![c].pc = "recv",
                            ![c].previous = peer[c].command,
                            ![c].command = command,
                            ![c].sends = @ + 1, ![c].result = NoResult]
    /\ hist' = [hist EXCEPT ![c].applied = 0, ![c].responses = 0]
    /\ UNCHANGED <<running, mainPc, handles, backlog, smart_socket, lockOwner,
                   handler, s2c, lastToggle, afterSignal>>

FrameComplete(avail) ==
    /\ Len(avail) >= PrefixLen
    /\ Len(avail) - PrefixLen >= from_be_bytes(Take(avail, PrefixLen))

\* the server has nothing more to write on connection c
Quiescent(c) ==
    \/ handler[c].pc = "read" /\ c2s[c] = <<>>
    \/ handler[c].pc = "finished"
    \/ handler[c].pc = "none" /\ mainPc \in {"join", "done"}

\* send_command, second half: read_message returns once a whole frame has
\* arrived, or fails when read_exact runs into the read timeout or the end of
\* the stream; then Response::from_str
ClientRecv(c) ==
    /\ peer[c].kind = "client"
    /\ peer[c].pc = "recv"
    /\ FrameComplete(s2c[c]) \/ Quiescent(c)
    /\ LET response_str == read_message(s2c[c])
       IN /\ peer' = [peer EXCEPT ![c].pc = "idle",
                                  ![c].result =
                                      IF response_str.ok
                                      THEN Response_from_str(response_str.val)
                                      ELSE [ok |-> FALSE, err |-> response_str.err]]
          /\ s2c' = [s2c EXCEPT ![c] = response_str.rest]
    /\ UNCHANGED <<running, mainPc, handles, backlog, smart_socket, lockOwner,
                   handler, c2s, hist, lastToggle, afterSignal>>

\* a peer that writes raw bytes on its connection, once the bytes it wrote
\* before have been read
RawSend(c, bytes) ==
    /\ peer[c].kind \in {"none", "raw"}
    /\ peer[c].state = "open"
    /\ c2s[c] = <<>>
    /\ PeerOps < MaxPeerOps
    /\ c2s' = [c2s EXCEPT ![c] = @ \o bytes]
    /\ peer' = [peer EXCEPT ![c].kind = "raw", ![c].sends = @ + 1]
    /\ hist' = [hist EXCEPT ![c].partial = (bytes = <<0, 0>>),
                            ![c].applied = 0, ![c].responses = 0]
    /\ UNCHANGED <<running, mainPc, handles, backlog, smart_socket, lockOwner,
                   handler, s2c, lastToggle, afterSignal>>

\* close(): stream.shutdown(Shutdown::Both); a raw peer closing its socket
PeerClose(c) ==
    /\ PeerOps < MaxPeerOps
    /\ peer[c].state = "open"
    /\ peer[c].pc = "idle"
    /\ peer' = [peer EXCEPT ![c].state = "closed"]
    /\ UNCHANGED <<running, mainPc, handles, backlog, smart_socket, lockOwner,
                   handler, c2s, s2c, hist, lastToggle, afterSignal>>

\* the peer aborts the connection: pending bytes are lost, the server's next
\* read or write on it fails
PeerReset(c) ==
    /\ PeerOps < MaxPeerOps
    /\ peer[c].state = "open"
    /\ peer[c].kind # "none"
    /\ peer' = [peer EXCEPT ![c].state = "reset"]
    /\ c2s' = [c2s EXCEPT ![c] = <<>>]
    /\ UNCHANGED <<running, mainPc, handles, backlog, smart_socket, lockOwner,
                   handler, s2c, hist, lastToggle, afterSignal>>

(***************************************************************************)
(* Specifications                                                          *)
(***************************************************************************)
\* nothing rendered, nothing parsed
PureIdle ==
    /\ source = <<>>
    /\ value = [kind |-> "none"]
    /\ text = <<>>
    /\ outcome = [kind |-> "none"]

Init == SysInit /\ CodecIdle /\ PureIdle

\* one step of the server process: main, or one of the handler threads
Server ==
    \/ Signal
    \/ MainCheck
    \/ MainAcceptOk
    \/ MainAcceptWouldBlock
    \/ MainAcceptErr
    \/ MainJoin
    \/ MainDone
    \/ \E c \in Conns :
          \/ HandlerStart(c)
          \/ HandlerStartErr(c)
          \/ \E size \in ReadSizes(Len(c2s[c])) : HandlerRead(c, size)
          \/ HandlerEof(c)
          \/ HandlerReadErr(c)
          \/ HandlerLock(c)
          \/ HandlerDispatch(c)
          \/ HandlerStatus(c)
          \/ HandlerWrite(c)
          \/ HandlerWriteErr(c)

\* the server with peers that write command texts and other bytes unframed
Next ==
    \/ Server /\ UNCHANGED <<codecVars, pureVars>>
    \/ \E c \in Conns :
          \/ Connect(c) /\ UNCHANGED <<codecVars, pureVars>>
          \/ \E bytes \in RawInputs : RawSend(c, bytes) /\ UNCHANGED <<codecVars, pureVars>>
          \/ PeerClose(c) /\ UNCHANGED <<codecVars, pureVars>>
          \/ PeerReset(c) /\ UNCHANGED <<codecVars, pureVars>>

Spec == Init /\ [][Next]_vars

\* the server with client sessions of smart_socket_client
NextClient ==
    \/ Server /\ UNCHANGED <<codecVars, pureVars>>
    \/ \E c \in Conns :
          \/ Connect(c) /\ UNCHANGED <<codecVars, pureVars>>
          \/ \E command \in Command : ClientSend(c, command) /\ UNCHANGED <<codecVars, pureVars>>
          \/ ClientRecv(c) /\ UNCHANGED <<codecVars, pureVars>>
          \/ PeerClose(c) /\ UNCHANGED <<codecVars, pureVars>>
          \/ PeerReset(c) /\ UNCHANGED <<codecVars, pureVars>>

SpecClient == Init /\ [][NextClient]_vars

\* Every handler thread is scheduled: a handler that can take a step of its
\* own takes it, and a handler waiting for the Mutex gets it when it is free
\* again and again.
HandlerFairness ==
    \A c \in Conns :
        /\ SF_vars(HandlerLock(c) /\ UNCHANGED <<codecVars, pureVars>>)
        /\ WF_vars(HandlerDispatch(c) /\ UNCHANGED <<codecVars, pureVars>>)
        /\ WF_vars(HandlerStatus(c) /\ UNCHANGED <<codecVars, pureVars>>)
        /\ WF_vars((HandlerWrite(c) \/ HandlerWriteErr(c))
                   /\ UNCHANGED <<codecVars, pureVars>>)

\* what the peers write in the runs checked for progress: a command that
\* changes the device and one that reads it
LiveInputs == {S_ON, S_STATUS}

\* the server when no call into the operating system fails on its own:
\* accept and set_nonblocking succeed, reads and writes fail only on a
\* connection the peer has closed, and a read returns all the pending bytes
ServerLive ==
    \/ Signal
    \/ MainCheck
    \/ MainAcceptOk
    \/ MainAcceptWouldBlock
    \/ MainJoin
    \/ MainDone
    \/ \E c \in Conns :
          \/ HandlerStart(c)
          \/ HandlerRead(c, Len(c2s[c]))
          \/ HandlerEof(c)
          \/ HandlerLock(c)
          \/ HandlerDispatch(c)
          \/ HandlerStatus(c)
          \/ HandlerWrite(c)
          \/ HandlerWriteErr(c)

NextLive ==
    \/ ServerLive /\ UNCHANGED <<codecVars, pureVars>>
    \/ \E c \in Conns :
          \/ Connect(c) /\ UNCHANGED <<codecVars, pureVars>>
          \/ \E bytes \in LiveInputs : RawSend(c, bytes) /\ UNCHANGED <<codecVars, pureVars>>
          \/ PeerClose(c) /\ UNCHANGED <<codecVars, pureVars>>

SpecLive == Init /\ [][NextLive]_vars /\ HandlerFairness

\* one step of main: its loop, its joins, its return
MainStep ==
    \/ MainCheck
    \/ MainAcceptOk
    \/ MainAcceptWouldBlock
    \/ MainJoin
    \/ MainDone

\* one step of the handler thread of connection c past its read
HandlerStep(c) ==
    \/ HandlerStart(c)
    \/ HandlerEof(c)
    \/ HandlerLock(c)
    \/ HandlerDispatch(c)
    \/ HandlerStatus(c)
    \/ HandlerWrite(c)
    \/ HandlerWriteErr(c)

\* the handler of connection c is in stream.read and bytes are pending: the
\* states in which HandlerRead(c, Len(c2s[c])) is enabled
ReadPending(c) ==
    /\ handler[c].pc = "read"
    /\ peer[c].state # "reset"
    /\ c2s[c] # <<>>

\* main and the handlers are threads that are scheduled: a thread whose next
\* step stays possible takes it, and a blocking read returns once bytes are
\* pending (weak fairness of HandlerRead(c, Len(c2s[c])), written with the
\* states that enable it: the read is not pending forever)
ThreadFairness ==
    /\ WF_vars(MainStep /\ UNCHANGED <<codecVars, pureVars>>)
    /\ \A c \in Conns : WF_vars(HandlerStep(c) /\ UNCHANGED <<codecVars, pureVars>>)
    /\ \A c \in Conns : []<>(~ReadPending(c))

\* the server and its peers as in SpecLive, with every thread scheduled
SpecDrain == Init /\ [][NextLive]_vars /\ ThreadFairness

InitCodec == SysInit /\ CodecInit /\ PureIdle

NextCodec ==
    \/ \E cut \in 0..(PrefixLen + (4 * MaxLen)) : WriteFrame(cut) /\ UNCHANGED <<sysVars, pureVars>>
    \/ \E k \in 1..PrefixLen : ReadLength(k) /\ UNCHANGED <<sysVars, pureVars>>
    \/ \E k \in 1..(4 * MaxLen) : ReadBody(k) /\ UNCHANGED <<sysVars, pureVars>>
    \/ ReadEof /\ UNCHANGED <<sysVars, pureVars>>

SpecCodec == InitCodec /\ [][NextCodec]_vars

\* bytes a frame body is made of: 'O', the two bytes of U+00E9, and 0xFF,
\* which no UTF-8 sequence contains
BodyBytes == {79, 195, 169, 255}

\* what a stream may deliver before it ends: less than a length prefix, or a
\* prefix announcing n bytes followed by fewer, as many, or more bytes
Streams ==
    {Take(to_be_bytes(n), k) : n \in 0..MaxBytes, k \in 0..(PrefixLen - 1)}
    \cup {to_be_bytes(n) \o body : n \in 0..MaxBytes, body \in SeqsUpTo(BodyBytes, MaxBytes)}

\* read_message is called on a stream that holds `source` and then ends
InitReader ==
    /\ SysInit
    /\ source \in Streams
    /\ value = [kind |-> "none"]
    /\ text = <<>>
    /\ outcome = [kind |-> "none"]
    /\ message = <<>>
    /\ reader = source
    /\ truncated = FALSE
    /\ rd = [pc |-> "length", need |-> PrefixLen, buf |-> <<>>, result |-> NoResult]

NextReader ==
    \/ \E k \in 1..PrefixLen : ReadLength(k) /\ UNCHANGED <<sysVars, pureVars>>
    \/ \E k \in 1..MaxBytes : ReadBody(k) /\ UNCHANGED <<sysVars, pureVars>>
    \/ ReadEof /\ UNCHANGED <<sysVars, pureVars>>

SpecReader == InitReader /\ [][NextReader]_vars

\* messages of 0 to MaxLen characters of one and two bytes
FrameMessages == SeqsUpTo({79, 233}, MaxLen)

\* the frames of the messages ms, one after the other
RECURSIVE Concat(_)
Concat(ms) == IF ms = <<>> THEN <<>> ELSE serialize_message(Head(ms)) \o Concat(Tail(ms))

\* read_message is called on a stream that holds the frames of 1 to
\* MaxFrames messages and then ends
InitStream ==
    /\ SysInit
    /\ \E ms \in SeqsUpTo(FrameMessages, MaxFrames) :
          /\ ms # <<>>
          /\ value = [kind |-> "messages", msgs |-> ms]
          /\ source = Concat(ms)
    /\ text = <<>>
    /\ outcome = [kind |-> "results", results |-> <<>>]
    /\ message = <<>>
    /\ reader = source
    /\ truncated = FALSE
    /\ rd = [pc |-> "length", need |-> PrefixLen, buf |-> <<>>, result |-> NoResult]

\* read_message has returned; the caller keeps the result and, for the next
\* exchange, calls read_message on the same stream again
CallAgain ==
    /\ rd.pc = "done"
    /\ Len(outcome.results) < Len(value.msgs)
    /\ outcome' = [outcome EXCEPT !.results = Append(@, rd.result)]
    /\ rd' = [pc |-> "length", need |-> PrefixLen, buf |-> <<>>, result |-> NoResult]
    /\ UNCHANGED <<message, reader, truncated, source, value, text>>

NextStream ==
    \/ \E k \in 1..PrefixLen : ReadLength(k) /\ UNCHANGED <<sysVars, pureVars>>
    \/ \E k \in 1..(PrefixLen + (2 * MaxLen)) : ReadBody(k) /\ UNCHANGED <<sysVars, pureVars>>
    \/ ReadEof /\ UNCHANGED <<sysVars, pureVars>>
    \/ CallAgain /\ UNCHANGED sysVars

SpecStream == InitStream /\ [][NextStream]_vars

(***************************************************************************)
(* Command::from_str, Response::from_str and their Display on given inputs *)
(***************************************************************************)
\* whitespace put before and after a text: none, ' ', '\n', "\r\n", '\t', U+00A0
Pads == {<<>>, <<32>>, <<10>>, <<13, 10>>, <<9>>, <<160>>}

\* texts without whitespace at either end: the four commands, "BOGUS", "on",
\* "Off", "ONN", "O N", "" and "STATUS:ON"
Cores ==
    {S_ON, S_OFF, S_STATUS, S_INFO, S_BOGUS, <<111, 110>>, <<79, 102, 102>>,
     <<79, 78, 78>>, <<79, 32, 78>>, <<>>, S_STATUS \o <<COLON>> \o S_ON}

\* messages of Ok, Info and Error: "", "a", ":", "a:", ":a", "::", "aa",
\* "Socket turned on"
Msgs == SeqsUpTo({97, COLON}, MaxLen) \cup {S_turned_on}

\* power values: 0, 7, 100, the configured power, and 2^31 - 1
Powers == {0, 7, 100, ConfiguredPower, 2147483647}

Responses ==
    {RespOk(m) : m \in Msgs} \cup {RespInfo(m) : m \in Msgs}
    \cup {RespError(m) : m \in Msgs}
    \cup {RespStatus(b, n) : b \in BOOLEAN, n \in Powers}

\* first tokens after STATUS: "ON", "OFF", "on", ""
StateTokens == {S_ON, S_OFF, <<111, 110>>, <<>>}

\* second tokens after STATUS, each with the number it denotes (-1: none):
\* "0", "100", "007", "2147483647", "+5", "", "+", "-5", "abc", "1a", " 1",
\* "4294967296" (above u32::MAX)
PowerTokens ==
    {<<<<48>>, 0>>, <<<<49, 48, 48>>, 100>>, <<<<48, 48, 55>>, 7>>,
     <<<<50, 49, 52, 55, 52, 56, 51, 54, 52, 55>>, 2147483647>>,
     <<<<PLUS, 53>>, 5>>, <<<<>>, -1>>, <<<<PLUS>>, -1>>, <<<<45, 53>>, -1>>,
     <<<<97, 98, 99>>, -1>>, <<<<49, 97>>, -1>>, <<<<32, 49>>, -1>>,
     <<<<52, 50, 57, 52, 57, 54, 55, 50, 57, 54>>, -1>>}

\* tags that are none of OK, STATUS, INFO, ERROR: "", "NOPE", "ok", "status",
\* "OK " and "STATUS2"
OtherTags ==
    {<<>>, <<78, 79, 80, 69>>, <<111, 107>>, <<115, 116, 97, 116, 117, 115>>,
     S_OK \o <<32>>, S_STATUS \o <<50>>}

\* tokens joined by ':' after a tag
RECURSIVE Joined(_, _)
Joined(tag, tokens) ==
    IF tokens = <<>> THEN tag
    ELSE Joined(tag \o <<COLON>> \o Head(tokens), Tail(tokens))

\* the sequences of tokens that follow STATUS: none, a state, a state and a
\* power, and these with a further token "x"
StatusTokens ==
    {<<>>} \cup {<<f>> : f \in StateTokens}
    \cup {<<f, p[1]>> : f \in StateTokens, p \in PowerTokens}
    \cup {<<f, p[1], <<120>>>> : f \in StateTokens, p \in PowerTokens}

\* c.to_string()
RenderCommand(c) ==
    /\ value.kind = "none"
    /\ value' = [kind |-> "command", v |-> c]
    /\ text' = Command_to_string(c)
    /\ UNCHANGED <<source, outcome>>

\* a text for Command::from_str: a core with whitespace around it
GiveCommandText(lead, core, trail) ==
    /\ value.kind = "none"
    /\ value' = [kind |-> "padded", core |-> core]
    /\ text' = lead \o core \o trail
    /\ UNCHANGED <<source, outcome>>

\* Command::from_str(&text)
ParseCommand ==
    /\ value.kind \in {"command", "padded"}
    /\ outcome.kind = "none"
    /\ outcome' = [kind |-> "command", res |-> Command_from_str(text)]
    /\ UNCHANGED <<source, value, text>>

\* r.to_string()
RenderResponse(r) ==
    /\ value.kind = "none"
    /\ value' = [kind |-> "response", v |-> r]
    /\ text' = Response_to_string(r)
    /\ UNCHANGED <<source, outcome>>

\* a text for Response::from_str: STATUS followed by tokens
GiveStatusText(tokens) ==
    /\ value.kind = "none"
    /\ value' = [kind |-> "status", tokens |-> tokens]
    /\ text' = Joined(S_STATUS, tokens)
    /\ UNCHANGED <<source, outcome>>

\* a text for Response::from_str: another tag, alone or followed by tokens
GiveTaggedText(tag, tokens) ==
    /\ value.kind = "none"
    /\ value' = [kind |-> "tagged", tag |-> tag]
    /\ text' = Joined(tag, tokens)
    /\ UNCHANGED <<source, outcome>>

\* Response::from_str(&text)
ParseResponse ==
    /\ value.kind \in {"response", "status", "tagged"}
    /\ outcome.kind = "none"
    /\ outcome' = [kind |-> "response", res |-> Response_from_str(text)]
    /\ UNCHANGED <<source, value, text>>

\* d repeated `times` times
RECURSIVE Repeat(_, _)
Repeat(d, times) == IF times = 0 THEN <<>> ELSE d \o Repeat(d, times - 1)

\* read_exact of n bytes on the tests' MockTcpStream, whose read copies all of
\* read_data into buf[..read_data.len()] on every call and consumes nothing:
\* a buf shorter than read_data is a slice out of range (panic), an empty
\* read_data is Ok(0)
MockReadExact(read_data, n) ==
    IF n = 0 THEN [kind |-> "ok", bytes |-> <<>>]
    ELSE IF read_data = <<>> THEN [kind |-> "eof"]
    ELSE IF n % Len(read_data) = 0
    THEN [kind |-> "ok", bytes |-> Repeat(read_data, n \div Len(read_data))]
    ELSE [kind |-> "panic"]

\* send_command on a MockTcpStream: write_all succeeds, then read_message and
\* Response::from_str
mock_send_command(read_data) ==
    LET length_bytes == MockReadExact(read_data, PrefixLen)
    IN IF length_bytes.kind = "panic" THEN [kind |-> "panic"]
       ELSE IF length_bytes.kind = "eof"
       THEN ConnectionError("Failed to read message length")
       ELSE LET buffer == MockReadExact(read_data, from_be_bytes(length_bytes.bytes))
            IN IF buffer.kind = "panic" THEN [kind |-> "panic"]
               ELSE IF buffer.kind = "eof"
               THEN ConnectionError("Failed to read message")
               ELSE LET response_str == from_utf8(buffer.bytes)
                    IN IF response_str.ok
                       THEN Response_from_str(response_str.val)
                       ELSE StrOk(response_str)

\* send_command on a stream that delivers read_data and then ends
stream_send_command(read_data) ==
    LET response_str == read_message(read_data)
    IN IF response_str.ok
       THEN Response_from_str(response_str.val)
       ELSE [ok |-> FALSE, err |-> response_str.err]

\* turn_on / turn_off / get_status / get_info on a stream whose read side
\* holds the rendered response
TypedCall(command) ==
    /\ value.kind = "response"
    /\ outcome.kind = "none"
    /\ outcome' = [kind |-> "call", command |-> command,
                   mock |-> mock_send_command(as_bytes(text)),
                   stream |-> stream_send_command(as_bytes(text))]
    /\ UNCHANGED <<source, value, text>>

InitGrammar == SysInit /\ CodecIdle /\ PureIdle

NextGrammar ==
    \/ \E c \in Command : RenderCommand(c) /\ UNCHANGED <<sysVars, codecVars>>
    \/ \E lead \in Pads, core \in Cores, trail \in Pads :
          GiveCommandText(lead, core, trail) /\ UNCHANGED <<sysVars, codecVars>>
    \/ ParseCommand /\ UNCHANGED <<sysVars, codecVars>>
    \/ \E r \in Responses : RenderResponse(r) /\ UNCHANGED <<sysVars, codecVars>>
    \/ \E tokens \in StatusTokens :
          GiveStatusText(tokens) /\ UNCHANGED <<sysVars, codecVars>>
    \/ \E tag \in OtherTags, tokens \in {<<>>, <<<<>>>>, <<<<97>>, <<98>>>>} :
          GiveTaggedText(tag, tokens) /\ UNCHANGED <<sysVars, codecVars>>
    \/ ParseResponse /\ UNCHANGED <<sysVars, codecVars>>
    \/ \E command \in Command : TypedCall(command) /\ UNCHANGED <<sysVars, codecVars>>

SpecGrammar == InitGrammar /\ [][NextGrammar]_vars

(***************************************************************************)
(* SmartSocketClient::close and Drop (smart_socket_client/src/main.rs)      *)
(***************************************************************************)
\* the types a client is built on: TcpStream and the tests' MockTcpStream,
\* which both keep the default Stream::shutdown, and an implementor that
\* defines a shutdown of its own
StreamTypes == {"TcpStream", "MockTcpStream", "Overriding"}

\* what self.stream.shutdown(Shutdown::Both) may return: the default method
\* of the trait returns Ok(()), an overriding one any io::Result<()>
Stream_shutdown(stream) ==
    IF stream \in {"TcpStream", "MockTcpStream"} THEN {"Ok"} ELSE {"Ok", "Err"}

UnitOk == [ok |-> TRUE, val |-> "unit"]

\* a close that leaves the connected flag set
close_keeps_flag(client, shutdown) ==
    IF client.connected
    THEN IF shutdown = "Ok"
         THEN [client |-> client, result |-> UnitOk, called |-> TRUE]
         ELSE [client |-> client, called |-> TRUE,
               result |-> ConnectionError("Failed to close connection")]
    ELSE [client |-> client, result |-> UnitOk, called |-> FALSE]

\* close(&mut self) when stream.shutdown, if it is called, returns `shutdown`:
\* the client afterwards, the result, and whether shutdown was called
close(client, shutdown) ==
    IF client.connected
    THEN IF shutdown = "Ok"
         THEN [client |-> [client EXCEPT !.connected = FALSE],
               result |-> UnitOk, called |-> TRUE]
         ELSE [client |-> client, called |-> TRUE,
               result |-> ConnectionError("Failed to close connection")]
    ELSE [client |-> client, result |-> UnitOk, called |-> FALSE]

\* SmartSocketClient { stream, connected: true }, no close() called yet
InitClose ==
    /\ SysInit
    /\ CodecIdle
    /\ source = <<>>
    /\ text = <<>>
    /\ \E stream \in StreamTypes :
          value = [kind |-> "client", stream |-> stream, connected |-> TRUE,
                   dropped |-> FALSE]
    /\ outcome = [kind |-> "close", results |-> <<>>, shutdowns |-> <<>>]

\* one call of close(): by main, or by drop() when `last`
CallClose(last) ==
    /\ value.kind = "client"
    /\ ~value.dropped
    /\ Len(outcome.results) < MaxCloses
    /\ \E shutdown \in Stream_shutdown(value.stream) :
          LET r == close(value, shutdown)
          IN /\ value' = [r.client EXCEPT !.dropped = last]
             /\ outcome' = [outcome EXCEPT
                               !.results = Append(@, r.result),
                               !.shutdowns = IF r.called THEN Append(@, shutdown) ELSE @]
    /\ UNCHANGED <<source, text>>

\* client.close()
Close == CallClose(FALSE)

\* impl Drop: let _ = self.close()
DropClient == CallClose(TRUE)

NextClose ==
    \/ Close /\ UNCHANGED <<sysVars, codecVars>>
    \/ DropClient /\ UNCHANGED <<sysVars, codecVars>>

SpecClose == InitClose /\ [][NextClose]_vars

(***************************************************************************)
(* Properties                                                              *)
(***************************************************************************)
\* the handler of connection c has taken in everything its client session sent
\* and is back at its read
Served(c) ==
    /\ peer[c].kind = "client"
    /\ peer[c].state = "open"
    /\ peer[c].sends > 0
    /\ handler[c].pc = "read"
    /\ c2s[c] = <<>>

\* C1: for a command a client session sends as one frame, the handler applies
\* exactly one device operation and sends exactly one response, however the
\* bytes of the frame are split over the handler's reads.
C1_OneFrameOneOperation ==
    \A c \in Conns :
        Served(c) => hist[c].applied = 1 /\ hist[c].responses = 1

\* C2: Scenario A: a client session that sends TurnOn receives
\* Ok("Socket turned on"), and a GetStatus it sends right after on the same
\* connection receives Status{is_on: true, power: configured power}.
C2_ScenarioA ==
    \A c \in Conns :
        ( /\ Served(c)
          /\ peer[c].pc = "idle"
          /\ \A d \in Conns \ {c} : peer[d].sends = 0 )
        => /\ peer[c].command = "TurnOn"
              => peer[c].result = [ok |-> TRUE, val |-> RespOk(S_turned_on)]
           /\ (peer[c].previous = "TurnOn" /\ peer[c].command = "GetStatus")
              => peer[c].result =
                     [ok |-> TRUE, val |-> RespStatus(TRUE, ConfiguredPower)]

\* the handlers that hold the guard of the device and run its methods
InDevice == {c \in Conns : handler[c].pc \in {"locked", "status"}}

\* C3: in every reachable state at most one handler thread is executing
\* device logic (turn_on, turn_off, is_on, get_power, description), and that
\* handler is the owner of the lock.
C3_ExclusiveDeviceAccess ==
    /\ Cardinality(InDevice) <= 1
    /\ \A c \in InDevice : lockOwner = c

\* C3 witness: one handler is inside the device while another one, with a
\* command of its own, waits for the lock.
C3_Witness ==
    \E c, d \in Conns :
        /\ c # d
        /\ handler[c].pc \in {"locked", "status"}
        /\ handler[d].pc = "lock"

\* C4: every Status response carries the is_on value of the most recently
\* completed toggle at the moment the status request acquired the lock, and the
\* configured power.
C4_StatusMatchesLastToggle ==
    \A c \in Conns :
        /\ handler[c].pc = "status" => handler[c].is_on = hist[c].snap
        /\ (handler[c].pc = "write" /\ handler[c].response.tag = "Status")
           => handler[c].response = RespStatus(hist[c].snap, ConfiguredPower)

\* C4 witness: a Status response that reports the device on, after a toggle
\* made on another connection.
C4_Witness ==
    \E c, d \in Conns :
        /\ c # d
        /\ peer[d].sends > 0
        /\ peer[c].sends = 1
        /\ handler[c].pc = "write"
        /\ handler[c].response = RespStatus(TRUE, ConfiguredPower)

\* C5: once the running flag is false, main accepts no connection and spawns no
\* handler.
C5_NoAcceptAfterSignal == afterSignal = 0

\* a step taken once main has read the flag as false: main stays out of its
\* loop, pushes no handle, and no handler is spawned
StepAfterObserved ==
    mainPc \in {"join", "done"}
    => /\ mainPc' \in {"join", "done"}
       /\ Len(handles') <= Len(handles)
       /\ \A c \in Conns : handler[c].pc = "none" => handler'[c].pc = "none"

\* C5 (amended): after the signal main accepts at most one more connection (in
\* the iteration that had read the flag as true), and once it has read the flag
\* as false it accepts none and spawns no handler.
C5_NoAcceptOnceObserved ==
    [](afterSignal <= 1) /\ [][StepAfterObserved]_vars

\* C5 witness: a connection was accepted after the signal and main has left
\* its loop.
C5_Witness == afterSignal = 1 /\ mainPc \in {"join", "done"}

\* C6: main reaches "Server shutdown complete" only after every handler it
\* spawned has finished: none is in its loop, none is writing a response, none
\* holds the device.
C6_ExitAfterAllHandlers ==
    mainPc = "done"
    => /\ \A c \in Conns : handler[c].pc \in {"none", "finished"}
       /\ handles = <<>>
       /\ lockOwner = 0

\* C6 witness: main has completed its shutdown with a handler it had spawned.
C6_Witness ==
    /\ mainPc = "done"
    /\ \E c \in Conns : handler[c].pc = "finished" /\ hist[c].responses > 0

\* the response the handler builds for a command the device accepts
NormalResponse(c) ==
    CASE handler[c].command = "TurnOn" -> handler[c].response = RespOk(S_turned_on)
      [] handler[c].command = "TurnOff" -> handler[c].response = RespOk(S_turned_off)
      [] handler[c].command = "GetInfo" ->
             handler[c].response = RespInfo(description(smart_socket))
      [] handler[c].command = "GetStatus" -> handler[c].response.tag = "Status"
      [] OTHER -> FALSE

\* "Invalid command: BOGUS"
S_Invalid_command_BOGUS ==
    <<73, 110, 118, 97, 108, 105, 100, 32, 99, 111, 109, 109, 97, 110, 100, 58, 32,
      66, 79, 71, 85, 83>>

\* the response about to be written: the Error for a text that is no command,
\* the usual response for a command
ResponseFits ==
    \A c \in Conns :
        /\ (handler[c].pc = "write" /\ handler[c].command = "none")
           => /\ handler[c].response =
                    RespError(S_Invalid_command \o trim(handler[c].command_str))
              /\ trim(handler[c].command_str) = S_BOGUS
                 => handler[c].response = RespError(S_Invalid_command_BOGUS)
        /\ (handler[c].pc = "write" /\ handler[c].command # "none")
           => NormalResponse(c)

\* the handler's step after an Error response, the peer still connected: back
\* to its read, the connection open
StepAfterError ==
    \A c \in Conns :
        ( /\ handler[c].pc = "write"
          /\ handler[c].response.tag = "Error"
          /\ peer[c].state = "open"
          /\ handler'[c].pc # "write" )
        => (handler'[c].pc = "read" /\ peer'[c].state = "open")

\* C7: Scenario B: a text that is no command is answered by
\* Error("Invalid command: <text>") ("Invalid command: BOGUS" for "BOGUS"), the
\* handler goes back to its read with the connection open, and a valid command
\* that follows on the connection is applied and answered as usual.
C7_InvalidCommandRecoverable ==
    []ResponseFits /\ [][StepAfterError]_vars

\* C7 witness: on a connection that was answered an Error before, TurnOn has
\* been applied and its response is about to be written.
C7_Witness ==
    \E c \in Conns :
        /\ hist[c].erred
        /\ handler[c].pc = "write"
        /\ handler[c].response = RespOk(S_turned_on)
        /\ is_on(smart_socket)

\* C8: Scenario D: when a connection closes after 2 of the 4 bytes of a length
\* prefix, the handler ends with a ConnectionError and the 2 bytes are neither
\* dispatched nor answered.
C8_PartialFrameConnectionError ==
    \A c \in Conns :
        (hist[c].partial /\ peer[c].state = "closed")
        => /\ handler[c].pc \in {"none", "start", "read", "finished"}
           /\ hist[c].applied = 0
           /\ hist[c].responses = 0
           /\ handler[c].pc = "finished" => handler[c].result = "ConnectionError"

\* a step in which a handler ends leaves everything but its own connection
HandlerEndIsLocal ==
    \A c \in Conns :
        (handler[c].pc # "finished" /\ handler'[c].pc = "finished")
        => /\ running' = running
           /\ mainPc' = mainPc
           /\ handles' = handles
           /\ backlog' = backlog
           /\ smart_socket' = smart_socket
           /\ lastToggle' = lastToggle
           /\ lockOwner' = lockOwner
           /\ lockOwner # c
           /\ \A d \in Conns \ {c} :
                 /\ handler'[d] = handler[d]
                 /\ c2s'[d] = c2s[d]
                 /\ s2c'[d] = s2c[d]
                 /\ peer'[d] = peer[d]

\* C9: a step in which the handler of one connection ends (read error, peer
\* close, write failure, set-up failure) changes nothing of main, of the
\* listener's queue, of the device or of any other connection, and the handler
\* that ends does not hold the lock.
C9_FailureIsLocal == [][HandlerEndIsLocal]_vars

\* C9 witness: the handler of a reset connection has ended on its read error
\* while the server runs on and serves another connection.
C9_Witness ==
    \E c, d \in Conns :
        /\ c # d
        /\ peer[c].state = "reset"
        /\ handler[c].pc = "finished"
        /\ handler[d].pc = "read"
        /\ running
        /\ mainPc \in {"check", "accept"}

\* the effect of the match on the command, under the lock
DispatchStep ==
    \A c \in Conns :
        /\ (handler[c].pc = "locked" /\ handler'[c].pc # "locked")
           => CASE handler[c].command = "TurnOn" ->
                     /\ is_on(smart_socket')
                     /\ handler'[c].pc = "write"
                     /\ handler'[c].response = RespOk(S_turned_on)
                [] handler[c].command = "TurnOff" ->
                     /\ ~is_on(smart_socket')
                     /\ handler'[c].pc = "write"
                     /\ handler'[c].response = RespOk(S_turned_off)
                [] handler[c].command = "GetInfo" ->
                     /\ smart_socket' = smart_socket
                     /\ handler'[c].pc = "write"
                     /\ handler'[c].response = RespInfo(description(smart_socket))
                [] handler[c].command = "GetStatus" ->
                     /\ smart_socket' = smart_socket
                     /\ handler'[c].pc = "status"
                     /\ handler'[c].is_on = is_on(smart_socket)
                [] OTHER -> FALSE
        /\ (handler[c].pc = "status" /\ handler'[c].pc # "status")
           => /\ smart_socket' = smart_socket
              /\ handler'[c].pc = "write"
              /\ handler'[c].response =
                     RespStatus(is_on(smart_socket), get_power(smart_socket))

\* C18: a parsed TurnOn sets the device on and is answered
\* Ok("Socket turned on"); TurnOff sets it off and is answered
\* Ok("Socket turned off"); GetStatus is answered Status with the device's
\* is_on() and get_power() of that instant; GetInfo is answered
\* Info(description()).
C18_HandlerDispatch == [][DispatchStep]_vars

\* C18 witness: the second command of a connection, a TurnOff, has set the
\* device off and its response is about to be written.
C18_Witness ==
    \E c \in Conns :
        /\ peer[c].sends = 2
        /\ handler[c].pc = "write"
        /\ handler[c].command = "TurnOff"
        /\ handler[c].response = RespOk(S_turned_off)
        /\ ~is_on(smart_socket)

\* C19: a handler holds the lock neither in its socket read nor in its socket
\* write: it takes the lock only with a parsed command and has released it
\* when the response is written.
C19_NoLockAcrossIO ==
    \A c \in Conns :
        /\ handler[c].pc \in {"none", "start", "read", "write", "finished"}
           => lockOwner # c
        /\ handler[c].pc \in {"lock", "locked", "status"}
           => handler[c].command \in Command

\* C19 witness: one handler is writing its Status response while another
\* handler holds the lock.
C19_Witness ==
    \E c, d \in Conns :
        /\ c # d
        /\ handler[c].pc = "write"
        /\ handler[c].response.tag = "Status"
        /\ lockOwner = d

\* C20: a handler that has received a command eventually applies it and then
\* attempts to write the response, whether or not the shutdown signal is
\* raised in between, when the handlers and the lock are scheduled fairly.
C20_NoMidRequestCancellation ==
    \A c \in Conns :
        /\ (handler[c].pc = "lock")
           ~> (handler[c].pc = "write" /\ handler[c].command # "none")
        /\ (handler[c].pc = "write")
           ~> (handler[c].pc \in {"read", "finished"})

\* C20 witness: the signal has been raised, main has left its loop, and a
\* handler that had received its command before has applied it.
C20_Witness ==
    \E c \in Conns :
        /\ ~running
        /\ mainPc \in {"join", "done"}
        /\ handler[c].pc = "write"
        /\ handler[c].command = "TurnOn"
        /\ is_on(smart_socket)

\* the handler of an open connection with nothing to read stays in its read,
\* whatever the shutdown flag says
IdleHandlerWaits ==
    \A c \in Conns :
        (/\ handler[c].pc = "read"
         /\ peer[c].state = "open" /\ c2s[c] = <<>>
         /\ peer'[c].state = "open" /\ c2s'[c] = <<>>)
        => handler'[c].pc = "read"

\* every connection main has accepted is closed by its client
AcceptedAllClosed ==
    \A c \in Conns : handler[c].pc # "none" => peer[c].state # "open"

\* C22: after the shutdown signal main leaves its accept loop, and once every
\* client whose connection it accepted has closed, the server exits; a handler
\* does not look at the flag, so it stays in its read while its connection is
\* open and idle, and main has not exited while such a handler exists.
C22_DrainOnShutdown ==
    /\ (~running) ~> (mainPc \in {"join", "done"})
    /\ (mainPc = "join" /\ AcceptedAllClosed) ~> (mainPc = "done")
    /\ [][IdleHandlerWaits]_vars
    /\ [](\A c \in Conns :
            (handler[c].pc = "read" /\ peer[c].state = "open") => mainPc # "done")

\* C22 witness: the signal has been raised, main is joining, and the handler
\* it waits for sits in its read on an open connection with nothing to read.
C22_Witness ==
    /\ ~running
    /\ mainPc = "join"
    /\ handles # <<>>
    /\ handler[Head(handles)].pc = "read"
    /\ peer[Head(handles)].state = "open"
    /\ c2s[Head(handles)] = <<>>
    /\ hist[Head(handles)].responses > 0

\* a step changes the device only as the TurnOn or TurnOff of the handler
\* that holds it, and only its on/off flag
DeviceFrame ==
    /\ smart_socket' # smart_socket
       => \E c \in Conns :
             /\ handler[c].pc = "locked"
             /\ handler'[c].pc = "write"
             /\ handler[c].command \in {"TurnOn", "TurnOff"}
             /\ smart_socket' = [smart_socket EXCEPT
                                     !.is_on = (handler[c].command = "TurnOn")]
    /\ \A c \in Conns :
          (/\ handler'[c] # handler[c]
           /\ handler[c].pc \in {"read", "locked", "status", "write"}
           /\ ~(handler[c].pc = "locked" /\ handler[c].command \in {"TurnOn", "TurnOff"}))
          => smart_socket' = smart_socket

\* C23: GetStatus, GetInfo and a message that is no command leave the device
\* as it is; only a TurnOn or a TurnOff changes it, and only its on/off flag:
\* the device is on exactly when the last toggle applied was a TurnOn, and
\* its power is the configured one.
C23_OnlyTogglesChangeDevice ==
    /\ [][DeviceFrame]_vars
    /\ [](/\ is_on(smart_socket) = lastToggle
          /\ get_power(smart_socket) = ConfiguredPower)

\* C23 witness: the device was turned on, and the answer to a later message
\* that is no command is about to be written with the device still on.
C23_Witness ==
    \E c \in Conns :
        /\ handler[c].pc = "write"
        /\ handler[c].response.tag = "Error"
        /\ handler[c].command = "none"
        /\ is_on(smart_socket)
        /\ lastToggle

\* C24: once a close() has succeeded the connected flag is false and every
\* later close(), the one of Drop included, returns Ok(()) without calling
\* stream.shutdown again; a close() whose shutdown fails returns
\* ConnectionError and leaves the flag set; so over any sequence of calls at
\* most one shutdown succeeds, and it is the last one called.
C24_CloseIdempotent ==
    LET results == outcome.results
        shutdowns == outcome.shutdowns
        failed == {i \in 1..Len(shutdowns) : shutdowns[i] # "Ok"}
    IN /\ \A i \in 1..Len(shutdowns) : shutdowns[i] = "Ok" => i = Len(shutdowns)
       /\ value.connected = (\A i \in 1..Len(shutdowns) : shutdowns[i] # "Ok")
       /\ \A i \in 1..Len(results) :
             IF i \in failed
             THEN results[i] = ConnectionError("Failed to close connection")
             ELSE results[i] = UnitOk
       /\ Len(shutdowns) <= Len(results)
       /\ ~value.connected => Len(shutdowns) = Cardinality(failed) + 1

\* C24 witness: a close() failed, the next one succeeded, a further one and
\* the one of Drop returned Ok(()) with no further shutdown.
C24_Witness ==
    /\ value.kind = "client"
    /\ value.dropped
    /\ ~value.connected
    /\ outcome.shutdowns = <<"Err", "Ok">>
    /\ Len(outcome.results) = 4
    /\ outcome.results[4] = UnitOk

\* C10: read_message on a stream that holds serialize_message(m) returns m, for
\* the empty string and for strings of characters of every UTF-8 width.
C10_FramingRoundTrip ==
    (rd.pc = "done" /\ ~truncated) => rd.result = [ok |-> TRUE, val |-> message]

\* the well-formed UTF-8 bodies among those the streams carry
ValidBodies == {as_bytes(m) : m \in SeqsUpTo({79, 233}, MaxBytes)}

\* C11: read_message fails with ConnectionError when the stream ends before
\* the 4 prefix bytes or before the announced body bytes, fails with
\* ParseError when the whole body is not UTF-8, and otherwise returns the
\* string of exactly the announced bytes, never less.
C11_ReadMessageErrors ==
    rd.pc = "done"
    => IF Len(source) < PrefixLen
       THEN rd.result = ConnectionError("Failed to read message length")
       ELSE LET length == from_be_bytes(Take(source, PrefixLen))
                body == SubSeq(source, PrefixLen + 1, PrefixLen + length)
            IN IF Len(source) - PrefixLen < length
               THEN rd.result = ConnectionError("Failed to read message")
               ELSE IF body \in ValidBodies
               THEN rd.result.ok /\ as_bytes(rd.result.val) = body
               ELSE /\ ~rd.result.ok
                    /\ rd.result.err.kind = "ParseError"

\* C11 witness: the stream ended in the middle of the announced body, after
\* a part of it had been read, and read_message has failed.
C11_Witness ==
    /\ rd.pc = "done"
    /\ Len(source) > PrefixLen
    /\ Len(source) - PrefixLen < from_be_bytes(Take(source, PrefixLen))
    /\ rd.buf # <<>>
    /\ ~rd.result.ok

\* C12: parsing the rendered text of each of the four commands yields the
\* command again.
C12_CommandRoundTrip ==
    (value.kind = "command" /\ outcome.kind = "command")
    => outcome.res = [ok |-> TRUE, val |-> value.v]

\* C12 witness: GetStatus has been rendered and parsed back.
C12_Witness ==
    /\ value.kind = "command"
    /\ value.v = "GetStatus"
    /\ outcome.kind = "command"
    /\ outcome.res.ok

\* the command a text without surrounding whitespace denotes, if any
CommandOf(core) ==
    CASE core = S_ON -> "TurnOn"
      [] core = S_OFF -> "TurnOff"
      [] core = S_STATUS -> "GetStatus"
      [] core = S_INFO -> "GetInfo"
      [] OTHER -> "none"

\* C13: Command parsing trims surrounding whitespace and accepts exactly "ON",
\* "OFF", "STATUS", "INFO"; every other input fails with InvalidCommand
\* carrying the original input text.
C13_InvalidCommandOriginalText ==
    (value.kind = "padded" /\ outcome.kind = "command")
    => IF CommandOf(value.core) # "none"
       THEN outcome.res = [ok |-> TRUE, val |-> CommandOf(value.core)]
       ELSE outcome.res =
                [ok |-> FALSE, err |-> [kind |-> "InvalidCommand", msg |-> text]]

\* C13 (amended): Command parsing trims surrounding whitespace and accepts
\* exactly "ON", "OFF", "STATUS", "INFO"; every other input fails with
\* InvalidCommand carrying the input text without its surrounding whitespace.
C13_InvalidCommandTrimmedText ==
    (value.kind = "padded" /\ outcome.kind = "command")
    => IF CommandOf(value.core) # "none"
       THEN outcome.res = [ok |-> TRUE, val |-> CommandOf(value.core)]
       ELSE outcome.res =
                [ok |-> FALSE, err |-> [kind |-> "InvalidCommand", msg |-> value.core]]

\* C13 witness: a text that is no command, with whitespace on both sides, has
\* been refused with the text between the whitespace.
C13_Witness ==
    /\ value.kind = "padded"
    /\ outcome.kind = "command"
    /\ ~outcome.res.ok
    /\ outcome.res.err.msg = S_BOGUS
    /\ Len(text) > Len(S_BOGUS) + 1
    /\ IsWhitespace(text[1])
    /\ IsWhitespace(text[Len(text)])

\* C14: parsing the rendered text of a Response (Ok, Info, Error with any
\* message, ':' included; Status with any is_on and power) yields the Response
\* again.
C14_ResponseRoundTrip ==
    (value.kind = "response" /\ outcome.kind = "response")
    => outcome.res = [ok |-> TRUE, val |-> value.v]

\* C14 witness: an Ok whose message contains ':' has been rendered and parsed
\* back.
C14_Witness ==
    /\ value.kind = "response"
    /\ value.v.tag = "Ok"
    /\ \E i \in 1..Len(value.v.msg) : value.v.msg[i] = COLON
    /\ outcome.kind = "response"
    /\ outcome.res.ok

\* C15: parsing the empty response text fails with ParseError("Empty response").
C15_EmptyResponse ==
    (outcome.kind = "response" /\ text = <<>>)
    => outcome.res = ParseError("Empty response")

\* the number a power token denotes, -1 when it denotes none
NumberOf(token) == (CHOOSE p \in PowerTokens : p[1] = token)[2]

\* C16: after the tag STATUS the remainder is split on ':'; is_on is true
\* exactly when the first token is "ON"; the second token is parsed as an
\* unsigned integer, with a ParseError when it is absent or no number; a tag
\* that is none of OK, STATUS, INFO, ERROR fails with InvalidResponse(tag).
C16_StatusParsing ==
    /\ (value.kind = "status" /\ outcome.kind = "response")
       => IF Len(value.tokens) < 2
          THEN ~outcome.res.ok /\ outcome.res.err.kind = "ParseError"
          ELSE IF NumberOf(value.tokens[2]) < 0
          THEN outcome.res = ParseError("Invalid power value")
          ELSE outcome.res =
                   [ok |-> TRUE,
                    val |-> RespStatus(value.tokens[1] = S_ON,
                                       NumberOf(value.tokens[2]))]
    /\ (value.kind = "tagged" /\ outcome.kind = "response")
       => outcome.res =
              [ok |-> FALSE, err |-> [kind |-> "InvalidResponse", msg |-> value.tag]]

\* C16 witness: "STATUS:on:100" and the like: a first token that is not "ON"
\* and a number have been parsed into a Status that is off.
C16_Witness ==
    /\ value.kind = "status"
    /\ Len(value.tokens) >= 2
    /\ value.tokens[1] \notin {S_ON, S_OFF}
    /\ outcome.kind = "response"
    /\ outcome.res.ok
    /\ ~outcome.res.val.is_on
    /\ outcome.res.val.power = 100

\* C17: a typed client call on a stream whose read side delivers the bytes of
\* a rendered response text succeeds and returns the Response the text
\* denotes, on the tests' mock stream and on a stream that ends after the text.
C17_TypedCallsReturnResponse ==
    outcome.kind = "call"
    => /\ outcome.mock = [ok |-> TRUE, val |-> value.v]
       /\ outcome.stream = [ok |-> TRUE, val |-> value.v]

\* the bytes the first i frames of the stream take
FrameBytes(ms, i) == Len(Concat(Take(ms, i)))

\* C21: on a stream holding serialize_message(m1) ++ serialize_message(m2) ++
\* ..., the i-th call of read_message returns m_i and leaves the stream right
\* behind the i-th frame (4 + n bytes per frame), however the reads split the
\* bytes; the results kept so far are m1, m2, ... in order.
C21_FramesInOrder ==
    LET ms == value.msgs
        i == Len(outcome.results) + 1
    IN /\ \A j \in 1..Len(outcome.results) :
              outcome.results[j] = [ok |-> TRUE, val |-> ms[j]]
       /\ (rd.pc = "done" /\ i <= Len(ms))
          => /\ rd.result = [ok |-> TRUE, val |-> ms[i]]
             /\ reader = Drop(source, FrameBytes(ms, i))

\* C21 witness: the second call has returned the second message, a non-empty
\* one that follows a non-empty first message.
C21_Witness ==
    /\ Len(value.msgs) >= 2
    /\ Len(outcome.results) = 1
    /\ rd.pc = "done"
    /\ value.msgs[1] # <<>>
    /\ value.msgs[2] # <<>>
    /\ value.msgs[2] # value.msgs[1]
    /\ rd.result = [ok |-> TRUE, val |-> value.msgs[2]]

\* C10 witness: a whole frame of a message with a multi-byte character has
\* been read back.
C10_Witness ==
    /\ rd.pc = "done"
    /\ ~truncated
    /\ rd.result.ok
    /\ \E i \in 1..Len(message) : message[i] > 127
====
